---- MODULE Spec2Model ----
(***************************************************************************)
(* A model of lib/SILPasses/DataflowDiagnostics.cpp: the SIL dataflow      *)
(* diagnostics pass.  emitSILDataflowDiagnostics walks a module function   *)
(* by function, block by block, instruction by instruction and hands each  *)
(* instruction to diagnoseUnreachable and then to diagnoseReturn; both     *)
(* write only to the diagnostic engine of the ASTContext.                  *)
(*                                                                         *)
(* The SIL module is read-only input.  The model holds the iterators of    *)
(* the three nested loops (the current function Fn, the current            *)
(* instruction I and their indices); the parts of the module the           *)
(* iterators have not reached yet are drawn when the iterators advance.    *)
(***************************************************************************)
EXTENDS Integers, Sequences, FiniteSets, TLC

\* Bounds of the modules explored: the number of functions of a module,
\* and the number of instructions of all its functions together.
MaxFuncs == 2
MaxInsts == 3

\* The same number for the modules the concurrent host is explored on.
MaxParInsts == 2

(***************************************************************************)
(* The input domain: what the pass reads of the IR.                        *)
(***************************************************************************)

\* Instruction kinds: three terminators the pass looks at, one terminator
\* it does not (a TermInst that is neither BranchInst nor ReturnInst nor
\* UnreachableInst), and every non-terminator.
TermKinds == {"Unreachable", "Branch", "Return", "CondBranch"}
Kinds == TermKinds \cup {"Other"}

\* What a present SILLocation is tagged with, as far as the pass asks:
\* isASTNode<AbstractFunctionDecl>, isASTNode<SwitchStmt>,
\* is<ReturnLocation>, is<ImplicitReturnLocation>, or none of these.
Tags == {"FunctionDecl", "SwitchStmt", "ExplicitReturn", "ImplicitReturn", "Other"}

\* A location without AST location (an instruction made by a SIL pass).
NoLoc == [present |-> FALSE, tag |-> "None", id |-> <<>>]

\* The locations the instruction at index p = <<function, block, instr>> may
\* carry.  A present location is identified by the instruction it belongs to.
Locs(p) == {NoLoc} \cup {[present |-> TRUE, tag |-> t, id |-> p] : t \in Tags}

\* The instructions of the given kinds at index p.
Insts(p, kinds) == {[kind |-> k, loc |-> l] : k \in kinds, l \in Locs(p)}

\* Result types of function declarations; "Void" is the no-value type.
Types == {"Void", "Int"}

\* A SILFunction as the pass sees it: whether its location is a FuncDecl,
\* and the two things the pass reads off that declaration.
Functions == [decl : {"FuncDecl", "None"}, resTy : Types, noReturn : BOOLEAN]

NoFn == [decl |-> "None", resTy |-> "Void", noReturn |-> FALSE]
NoInst == [kind |-> "Other", loc |-> NoLoc]

(***************************************************************************)
(* SourceLoc queries of a SILLocation.                                     *)
(***************************************************************************)
InvalidSourceLoc == [id |-> <<>>, side |-> "invalid"]

getEndSourceLoc(L) ==
    IF L.present THEN [id |-> L.id, side |-> "end"] ELSE InvalidSourceLoc

getSourceLoc(L) ==
    IF L.present THEN [id |-> L.id, side |-> "start"] ELSE InvalidSourceLoc

(***************************************************************************)
(* The pass.  A Context is the ASTContext as the pass uses it: the         *)
(* diagnostics handed to Context.Diags so far, and whether an assert       *)
(* of the pass has failed.                                                 *)
(***************************************************************************)
\* Mutant: the engine puts a new diagnostic in front of the earlier ones.
diagnose_Prepend(Context, loc, diag, args) ==
    [Context EXCEPT !.Diags = <<[loc |-> loc, diag |-> diag, args |-> args]>> \o @]

\* Mutant: the engine drops a diagnostic of the kind it was handed last, so
\* what a function emits depends on what was emitted before it.
diagnose_DropRepeat(Context, loc, diag, args) ==
    IF Context.Diags # <<>> /\ Context.Diags[Len(Context.Diags)].diag = diag
    THEN Context
    ELSE [Context EXCEPT !.Diags = Append(@, [loc |-> loc, diag |-> diag, args |-> args])]

diagnose(Context, loc, diag, args) ==
    [Context EXCEPT !.Diags = Append(@, [loc |-> loc, diag |-> diag, args |-> args])]

\* A failed assert of the pass: the run aborts, nothing is emitted.
assertFail(Context) == [Context EXCEPT !.failed = TRUE]

\* Mutant: the diagnostic is put at the start of the location (line 59).
diagnoseMissingReturn_AtStart(UI, F, Context) ==
    IF F.decl = "FuncDecl" /\ F.resTy # "Void" /\ ~F.noReturn
    THEN diagnose(Context, getSourceLoc(UI.loc), "missing_return", <<F.resTy>>)
    ELSE Context

\* Mutant: the noreturn test (lines 44-48) is left out.
diagnoseMissingReturn_IgnoreNoReturn(UI, F, Context) ==
    IF F.decl = "FuncDecl" /\ F.resTy # "Void"
    THEN diagnose(Context, getEndSourceLoc(UI.loc), "missing_return", <<F.resTy>>)
    ELSE Context

\* Mutant: the else branch (lines 49-53) falls through instead of returning,
\* with ResTy still null.
diagnoseMissingReturn_NoDeclFallsThrough(UI, F, Context) ==
    IF F.decl = "FuncDecl"
    THEN IF F.resTy = "Void" \/ F.noReturn
         THEN Context
         ELSE diagnose(Context, getEndSourceLoc(UI.loc), "missing_return", <<F.resTy>>)
    ELSE assertFail(Context)

diagnoseMissingReturn(UI, F, Context) ==
    IF F.decl = "FuncDecl"
    THEN IF F.resTy = "Void"
         THEN Context
         ELSE IF F.noReturn
              THEN Context
              ELSE IF ~UI.loc.present
                   THEN assertFail(Context)
                   ELSE diagnose(Context, getEndSourceLoc(UI.loc),
                                 "missing_return", <<F.resTy>>)
    ELSE Context

\* Mutant: the diagnostic is put at the start of the location (line 68).
diagnoseNonExhaustiveSwitch_AtStart(UI, Context) ==
    IF ~UI.loc.present
    THEN assertFail(Context)
    ELSE diagnose(Context, getSourceLoc(UI.loc), "non_exhaustive_switch", <<>>)

diagnoseNonExhaustiveSwitch(UI, Context) ==
    IF ~UI.loc.present
    THEN assertFail(Context)
    ELSE diagnose(Context, getEndSourceLoc(UI.loc), "non_exhaustive_switch", <<>>)

\* Mutant: an Unreachable without AST location is taken for a missing
\* return instead of being skipped (lines 80-81).
diagnoseUnreachable_AbsentIsMissingReturn(Inst, F, Context) ==
    IF Inst.kind = "Unreachable"
    THEN IF ~Inst.loc.present \/ Inst.loc.tag = "FunctionDecl"
         THEN diagnoseMissingReturn(Inst, F, Context)
         ELSE IF Inst.loc.tag = "SwitchStmt"
              THEN diagnoseNonExhaustiveSwitch(Inst, Context)
              ELSE Context
    ELSE Context

diagnoseUnreachable(Inst, F, Context) ==
    IF Inst.kind = "Unreachable"
    THEN IF ~Inst.loc.present
         THEN Context
         ELSE IF Inst.loc.tag = "FunctionDecl"
              THEN diagnoseMissingReturn(Inst, F, Context)
              ELSE IF Inst.loc.tag = "SwitchStmt"
                   THEN diagnoseNonExhaustiveSwitch(Inst, Context)
                   ELSE Context
    ELSE Context

\* Mutant: the ImplicitReturnLocation case (lines 117-118) is left out.
diagnoseReturn_ExplicitOnly(Inst, F, Context) ==
    IF Inst.kind \in {"Branch", "Return"} /\ F.decl = "FuncDecl" /\ F.noReturn
       /\ Inst.loc.tag = "ExplicitReturn"
    THEN diagnose(Context, getSourceLoc(Inst.loc), "return_from_noreturn", <<>>)
    ELSE Context

\* Mutant: the isNoReturn test (line 113) is left out.
diagnoseReturn_IgnoreNoReturn(Inst, F, Context) ==
    IF Inst.kind \in {"Branch", "Return"} /\ F.decl = "FuncDecl"
       /\ Inst.loc.tag \in {"ExplicitReturn", "ImplicitReturn"}
    THEN diagnose(Context, getSourceLoc(Inst.loc), "return_from_noreturn", <<>>)
    ELSE Context

\* Mutant: the second test (line 117) also accepts a ReturnLocation, so an
\* explicit return is diagnosed twice.
diagnoseReturn_BothFire(Inst, F, Context) ==
    IF Inst.kind \in {"Branch", "Return"} /\ F.decl = "FuncDecl" /\ F.noReturn
    THEN LET L == Inst.loc
             AfterExplicit == IF L.tag = "ExplicitReturn"
                              THEN diagnose(Context, getSourceLoc(L),
                                            "return_from_noreturn", <<>>)
                              ELSE Context
         IN  IF L.tag \in {"ExplicitReturn", "ImplicitReturn"}
             THEN diagnose(AfterExplicit, getSourceLoc(L), "return_from_noreturn", <<>>)
             ELSE AfterExplicit
    ELSE Context

diagnoseReturn(Inst, F, Context) ==
    IF ~(Inst.kind \in TermKinds) \/ ~(Inst.kind \in {"Branch", "Return"})
    THEN Context
    ELSE IF F.decl = "FuncDecl" /\ F.noReturn
         THEN LET L == Inst.loc
                  AfterExplicit == IF L.tag = "ExplicitReturn"
                        THEN diagnose(Context, getSourceLoc(L), "return_from_noreturn", <<>>)
                        ELSE Context
              IN  IF L.tag = "ImplicitReturn"
                  THEN diagnose(AfterExplicit, getSourceLoc(L), "return_from_noreturn", <<>>)
                  ELSE AfterExplicit
         ELSE Context

\* The body of the innermost loop of emitSILDataflowDiagnostics.
visit(Inst, F, Context) == diagnoseReturn(Inst, F, diagnoseUnreachable(Inst, F, Context))

(***************************************************************************)
(* The traversal of emitSILDataflowDiagnostics.                            *)
(***************************************************************************)
VARIABLES
    pc,        \* the loop the traversal is at the head of: "fn", "bb", "inst"; or "done"
    pos,       \* <<function, block, instruction>> indices of the iterators
    Fn,        \* the function the outer loop is at
    I,         \* the instruction the inner loop is at (the one visited last)
    Context,   \* M->getASTContext(): the diagnostics emitted so far
    src,       \* history: for each diagnostic of Context.Diags, the function
               \* whose instruction was being visited when it was emitted
    before,    \* history: Len(Context.Diags) before the step last taken
    fnBefore,  \* history: Len(Context.Diags) when Fn was entered
    nUnreach,  \* history: Unreachable instructions of Fn visited so far
    uLoc,      \* history: the location of the last of them
    nTerm,     \* history: terminators visited so far
    nInst,     \* history: instructions visited so far
    \* A host that runs the per-function traversals concurrently, one worker
    \* for each function of the module, all writing to one engine:
    wpc,       \* per worker: "fn" (not started), "bb", "inst" or "end"
    wpos,      \* per worker: the indices of its iterators
    wFn,       \* per worker: its function
    shared,    \* the Context all workers emit to, in arrival order
    own,       \* history, per worker: the Context of its function run alone
    wn,        \* history: instructions visited by all workers so far
    inOrder,   \* history: so far the workers ran one after the other, in order
    surfaced   \* what the host surfaces: nothing until it has resequenced

seqVars == <<pc, pos, Fn, I, Context, src, before, fnBefore, nUnreach, uLoc, nTerm, nInst>>

parVars == <<wpc, wpos, wFn, shared, own, wn, inOrder, surfaced>>

vars == <<seqVars, parVars>>

hist == <<src, fnBefore, nUnreach, uLoc, nTerm, nInst>>

\* The kinds the next instruction of a block may have when n instructions
\* are left to the module beyond it and the blocks that are open besides its
\* own need `open` of them: a block ends with its only terminator.
KindsLeft(n, open) == IF n > open THEN Kinds ELSE TermKinds

\* The ASTContext before the pass: nothing diagnosed yet.
EmptyContext == [Diags |-> <<>>, failed |-> FALSE]

SeqInit ==
    /\ pc = "fn"
    /\ pos = <<0, 0, 0>>
    /\ Fn = NoFn
    /\ I = NoInst
    /\ Context = EmptyContext
    /\ src = <<>>
    /\ before = 0
    /\ fnBefore = 0
    /\ nUnreach = 0
    /\ uLoc = NoLoc
    /\ nTerm = 0
    /\ nInst = 0

Workers == 1..MaxFuncs

ParInit ==
    /\ wpc = [f \in Workers |-> "fn"]
    /\ wpos = [f \in Workers |-> <<f, 0, 0>>]
    /\ wFn = [f \in Workers |-> NoFn]
    /\ shared = EmptyContext
    /\ own = [f \in Workers |-> EmptyContext]
    /\ wn = 0
    /\ inOrder = TRUE
    /\ surfaced = [ready |-> FALSE, Diags |-> <<>>]

Init == SeqInit /\ ParInit

\* for (auto &Fn : *M): the next function of the module.
EnterFunction ==
    /\ pc = "fn"
    /\ pos[1] < MaxFuncs
    /\ Fn' \in Functions
    /\ pos' = <<pos[1] + 1, 0, 0>>
    /\ pc' = "bb"
    /\ fnBefore' = Len(Context.Diags)
    /\ nUnreach' = 0
    /\ uLoc' = NoLoc
    /\ before' = Len(Context.Diags)
    /\ I' = NoInst
    /\ UNCHANGED <<Context, src, nTerm, nInst>>
    /\ UNCHANGED parVars

\* for (auto &Fn : *M): the module has no more functions.
Finish ==
    /\ pc = "fn"
    /\ pc' = "done"
    /\ before' = Len(Context.Diags)
    /\ UNCHANGED <<pos, Fn, I, Context, hist>>
    /\ UNCHANGED parVars

\* for (auto &BB : Fn): the next block of Fn; the instruction iterator is
\* before its first instruction.
EnterBlock ==
    /\ pc = "bb"
    /\ nInst < MaxInsts
    /\ pos' = <<pos[1], pos[2] + 1, 0>>
    /\ I' = NoInst
    /\ pc' = "inst"
    /\ before' = Len(Context.Diags)
    /\ UNCHANGED <<Fn, Context, hist>>
    /\ UNCHANGED parVars

\* for (auto &BB : Fn): Fn has no more blocks.
LeaveFunction ==
    /\ pc = "bb"
    /\ pc' = "fn"
    /\ I' = NoInst
    /\ before' = Len(Context.Diags)
    /\ UNCHANGED <<pos, Fn, Context, hist>>
    /\ UNCHANGED parVars

\* for (auto &I : BB) { diagnoseUnreachable(&I, ...); diagnoseReturn(&I, ...); }
\* one iteration: the next instruction of the block is fetched and handed to
\* both classifiers.  The block ends after its terminator.
VisitInstruction ==
    /\ pc = "inst"
    /\ LET p == <<pos[1], pos[2], pos[3] + 1>>
       IN  /\ pos' = p
           /\ \E inst \in Insts(p, KindsLeft(MaxInsts - nInst - 1, 0)) :
                 /\ I' = inst
                 /\ Context' = visit(inst, Fn, Context)
    /\ nInst' = nInst + 1
    /\ before' = Len(Context.Diags)
    /\ nTerm' = IF I'.kind \in TermKinds THEN nTerm + 1 ELSE nTerm
    /\ nUnreach' = IF I'.kind = "Unreachable" THEN nUnreach + 1 ELSE nUnreach
    /\ uLoc' = IF I'.kind = "Unreachable" THEN I'.loc ELSE uLoc
    /\ pc' = IF I'.kind \in TermKinds THEN "bb" ELSE "inst"
    /\ src' = src \o [k \in 1..(Len(Context'.Diags) - Len(Context.Diags)) |-> Fn]
    /\ UNCHANGED <<Fn, fnBefore>>
    /\ UNCHANGED parVars

Next ==
    \/ EnterFunction
    \/ Finish
    \/ EnterBlock
    \/ LeaveFunction
    \/ VisitInstruction

Spec == Init /\ [][Next]_vars

\* The order of traversal indices <<function, block, instruction>>.
LexLeq(a, b) ==
    \/ a[1] < b[1]
    \/ a[1] = b[1] /\ a[2] < b[2]
    \/ a[1] = b[1] /\ a[2] = b[2] /\ a[3] <= b[3]

(***************************************************************************)
(* The concurrent host: each function is traversed by a worker of its own, *)
(* the workers' steps interleave in any order, and the diagnostics are     *)
(* resequenced into traversal order before they are surfaced.  A worker    *)
(* runs the loops of emitSILDataflowDiagnostics over its one function.     *)
(***************************************************************************)

\* Whether the step worker f takes keeps the schedule sequential.
StaysInOrder(f) == inOrder /\ \A g \in 1..(f - 1) : wpc[g] = "end"

\* The blocks the workers other than f are inside of: each still needs its
\* terminator.
OpenBlocksBeside(f) == Cardinality({g \in Workers \ {f} : wpc[g] = "inst"})

ParEnterFunction(f) ==
    /\ wpc[f] = "fn"
    /\ \E F \in Functions : wFn' = [wFn EXCEPT ![f] = F]
    /\ wpc' = [wpc EXCEPT ![f] = "bb"]
    /\ inOrder' = StaysInOrder(f)
    /\ UNCHANGED <<wpos, shared, own, wn, surfaced>>
    /\ UNCHANGED seqVars

ParLeaveFunction(f) ==
    /\ wpc[f] = "bb"
    /\ wpc' = [wpc EXCEPT ![f] = "end"]
    /\ wpos' = [wpos EXCEPT ![f] = <<f, 0, 0>>]
    /\ wFn' = [wFn EXCEPT ![f] = NoFn]
    /\ inOrder' = StaysInOrder(f)
    /\ UNCHANGED <<shared, own, wn, surfaced>>
    /\ UNCHANGED seqVars

\* One iteration of the worker's instruction loop: the next instruction of
\* the block it is in, or the first one of its next block.
ParVisitInstruction(f) ==
    /\ wpc[f] \in {"bb", "inst"}
    /\ wn + OpenBlocksBeside(f) < MaxParInsts
    /\ LET p == IF wpc[f] = "bb"
                THEN <<f, wpos[f][2] + 1, 1>>
                ELSE <<f, wpos[f][2], wpos[f][3] + 1>>
       IN  /\ wpos' = [wpos EXCEPT ![f] = p]
           /\ \E inst \in Insts(p, KindsLeft(MaxParInsts - wn - 1, OpenBlocksBeside(f))) :
                 /\ shared' = visit(inst, wFn[f], shared)
                 /\ own' = [own EXCEPT ![f] = visit(inst, wFn[f], @)]
                 /\ wpc' = [wpc EXCEPT ![f] =
                               IF inst.kind \in TermKinds THEN "bb" ELSE "inst"]
    /\ wn' = wn + 1
    /\ inOrder' = StaysInOrder(f)
    /\ UNCHANGED <<wFn, surfaced>>
    /\ UNCHANGED seqVars

\* Insertion of diagnostic d into a sequence ordered by traversal index.
RECURSIVE InsertByIndex(_, _)
InsertByIndex(d, ds) ==
    IF ds = <<>> THEN <<d>>
    ELSE IF LexLeq(d.loc.id, Head(ds).loc.id)
         THEN <<d>> \o ds
         ELSE <<Head(ds)>> \o InsertByIndex(d, Tail(ds))

\* The diagnostics ds in function, block, instruction order.
RECURSIVE Resequenced(_)
Resequenced(ds) ==
    IF ds = <<>> THEN <<>> ELSE InsertByIndex(Head(ds), Resequenced(Tail(ds)))

AllEnded == \A f \in Workers : wpc[f] = "end"

Resequence ==
    /\ AllEnded
    /\ ~surfaced.ready
    /\ surfaced' = [ready |-> TRUE, Diags |-> Resequenced(shared.Diags)]
    /\ UNCHANGED <<wpc, wpos, wFn, shared, own, wn, inOrder>>
    /\ UNCHANGED seqVars

ParNext ==
    \/ \E f \in Workers : ParEnterFunction(f)
    \/ \E f \in Workers : ParLeaveFunction(f)
    \/ \E f \in Workers : ParVisitInstruction(f)
    \/ Resequence

ParSpec == Init /\ [][ParNext]_vars

(***************************************************************************)
(* Vocabulary of the properties.                                           *)
(***************************************************************************)

\* The last step was a visit: I is the instruction visited, Fn its function.
Visited == pc \in {"inst", "bb"} /\ pos[3] > 0

\* The diagnostics the last step handed to the engine.
Emitted == SubSeq(Context.Diags, before + 1, Len(Context.Diags))

\* The diagnostics handed to the engine since Fn was entered.
FnDiags == SubSeq(Context.Diags, fnBefore + 1, Len(Context.Diags))

KindsIn(ds) == {ds[k].diag : k \in 1..Len(ds)}

\* (C1) Once the traversal has left a function that has a FuncDecl, a
\* result type other than Void and no noreturn marker, and whose body held
\* exactly one Unreachable, located at the function declaration: the
\* diagnostics of that function are exactly one missing_return, carrying the
\* declared result type, at the end position of that location.
C1_MissingReturn ==
    (/\ pc = "fn" /\ pos[1] >= 1
     /\ Fn.decl = "FuncDecl" /\ Fn.resTy # "Void" /\ ~Fn.noReturn
     /\ nUnreach = 1 /\ uLoc.present /\ uLoc.tag = "FunctionDecl")
    => FnDiags = << [loc |-> [id |-> uLoc.id, side |-> "end"],
                     diag |-> "missing_return", args |-> <<Fn.resTy>>] >>

C1_Witness ==
    /\ pc = "fn" /\ pos[1] >= 1
    /\ Fn.decl = "FuncDecl" /\ Fn.resTy = "Int" /\ ~Fn.noReturn
    /\ nUnreach = 1 /\ uLoc.present /\ uLoc.tag = "FunctionDecl"
    /\ pos[2] = 2
    /\ Len(FnDiags) = 1 /\ FnDiags[1].diag = "missing_return"

\* (C2) At every point of the traversal, and so after the pass, every
\* missing_return in the sink was emitted for an instruction of a function
\* whose result type is not Void and which is not marked noreturn.
C2_NoMissingReturnForVoidOrNoReturn ==
    /\ Len(src) = Len(Context.Diags)
    /\ \A k \in 1..Len(Context.Diags) :
          Context.Diags[k].diag = "missing_return"
          => (src[k].resTy # "Void" /\ ~src[k].noReturn)

C2_Witness ==
    /\ pc = "done"
    /\ Fn.decl = "FuncDecl" /\ Fn.resTy = "Int" /\ Fn.noReturn
    /\ nUnreach = 1 /\ uLoc.present /\ uLoc.tag = "FunctionDecl"
    /\ pos[1] = 2
    /\ Len(src) = 1 /\ src[1].decl = "FuncDecl" /\ src[1].resTy = "Void"
    /\ "missing_return" \notin KindsIn(Context.Diags)

\* (C3) Visiting an Unreachable whose location is absent skips it: nothing
\* is emitted and no assert trips, whatever the enclosing function.
C3_AbsentLocationSilent ==
    (Visited /\ I.kind = "Unreachable" /\ ~I.loc.present)
    => (Emitted = <<>> /\ ~Context.failed)

C3_Witness ==
    /\ Visited /\ I.kind = "Unreachable" /\ ~I.loc.present
    /\ Fn.decl = "FuncDecl" /\ Fn.resTy = "Int" /\ ~Fn.noReturn
    /\ Emitted = <<>> /\ ~Context.failed

\* (C4) Visiting an Unreachable whose location is present and tagged as a
\* switch statement emits exactly one non_exhaustive_switch, at the end
\* position of that location, and nothing else, whatever the function.
C4_NonExhaustiveSwitch ==
    (Visited /\ I.kind = "Unreachable" /\ I.loc.present /\ I.loc.tag = "SwitchStmt")
    => Emitted = << [loc |-> [id |-> I.loc.id, side |-> "end"],
                     diag |-> "non_exhaustive_switch", args |-> <<>>] >>

C4_Witness ==
    /\ Visited /\ I.kind = "Unreachable" /\ I.loc.present /\ I.loc.tag = "SwitchStmt"
    /\ Fn.decl = "None" /\ Fn.noReturn /\ Fn.resTy = "Int"
    /\ Len(Emitted) = 1 /\ Emitted[1].diag = "non_exhaustive_switch"

\* The record diagnoseReturn is to hand over for instruction Inst.
ReturnFromNoReturnAt(Inst) ==
    [loc |-> [id |-> Inst.loc.id, side |-> "start"],
     diag |-> "return_from_noreturn", args |-> <<>>]

\* (C5, as claimed) Visiting any terminator of a function marked noreturn
\* whose location is tagged explicit-return or implicit-return emits exactly
\* one return_from_noreturn at its start position; a Branch with another tag
\* emits none.
C5_AsClaimed ==
    /\ (Visited /\ I.kind \in TermKinds /\ Fn.noReturn
        /\ I.loc.present /\ I.loc.tag \in {"ExplicitReturn", "ImplicitReturn"})
       => Emitted = <<ReturnFromNoReturnAt(I)>>
    /\ (Visited /\ I.kind = "Branch" /\ Fn.noReturn
        /\ I.loc.tag \notin {"ExplicitReturn", "ImplicitReturn"})
       => "return_from_noreturn" \notin KindsIn(Emitted)

\* (C5, amended) The same for a Branch or a Return of a function that has a
\* FuncDecl marked noreturn.
C5_ReturnFromNoReturn ==
    /\ (Visited /\ I.kind \in {"Branch", "Return"}
        /\ Fn.decl = "FuncDecl" /\ Fn.noReturn
        /\ I.loc.present /\ I.loc.tag \in {"ExplicitReturn", "ImplicitReturn"})
       => Emitted = <<ReturnFromNoReturnAt(I)>>
    /\ (Visited /\ I.kind = "Branch" /\ Fn.noReturn
        /\ I.loc.tag \notin {"ExplicitReturn", "ImplicitReturn"})
       => "return_from_noreturn" \notin KindsIn(Emitted)

C5_Witness ==
    /\ Visited /\ I.kind = "Branch"
    /\ Fn.decl = "FuncDecl" /\ Fn.noReturn
    /\ I.loc.present /\ I.loc.tag = "ImplicitReturn"
    /\ Emitted = <<ReturnFromNoReturnAt(I)>>

\* (C6) The sink is ordered by the traversal index (function, then block,
\* then instruction) of the instruction each diagnostic points into.
C6_TraversalOrder ==
    \A j, k \in 1..Len(Context.Diags) :
        j < k => /\ Len(Context.Diags[j].loc.id) = 3
                 /\ Len(Context.Diags[k].loc.id) = 3
                 /\ LexLeq(Context.Diags[j].loc.id, Context.Diags[k].loc.id)

C6_Witness ==
    /\ pc = "done"
    /\ Len(Context.Diags) = 3
    /\ Context.Diags[1].loc.id[1] = 1
    /\ Context.Diags[2].loc.id[1] = 2 /\ Context.Diags[2].loc.id[2] = 1
    /\ Context.Diags[3].loc.id[1] = 2 /\ Context.Diags[3].loc.id[2] = 2

\* (C7, as claimed) Visiting any instruction of a function without a
\* FuncDecl emits nothing and trips no assert.
C7_AsClaimed ==
    (Visited /\ Fn.decl = "None") => (Emitted = <<>> /\ ~Context.failed)

\* (C7, amended) Visiting an instruction of a function without a FuncDecl
\* trips no assert and emits nothing, except that an Unreachable located at a
\* switch statement emits its one non_exhaustive_switch.
C7_NoDeclaration ==
    (Visited /\ Fn.decl = "None")
    => /\ ~Context.failed
       /\ Emitted = IF I.kind = "Unreachable" /\ I.loc.present /\ I.loc.tag = "SwitchStmt"
                    THEN << [loc |-> [id |-> I.loc.id, side |-> "end"],
                             diag |-> "non_exhaustive_switch", args |-> <<>>] >>
                    ELSE <<>>

C7_Witness ==
    /\ Visited /\ Fn.decl = "None" /\ Fn.resTy = "Int" /\ ~Fn.noReturn
    /\ I.kind = "Unreachable" /\ I.loc.present /\ I.loc.tag = "FunctionDecl"
    /\ Emitted = <<>> /\ ~Context.failed

\* (C8) At every point of the traversal, and so after the pass, every
\* return_from_noreturn in the sink was emitted for an instruction of a
\* function marked noreturn.
C8_OnlyNoReturnFunctions ==
    /\ Len(src) = Len(Context.Diags)
    /\ \A k \in 1..Len(Context.Diags) :
          Context.Diags[k].diag = "return_from_noreturn" => src[k].noReturn

C8_Witness ==
    /\ Visited /\ I.kind = "Return" /\ I.loc.present /\ I.loc.tag = "ExplicitReturn"
    /\ Fn.decl = "FuncDecl" /\ ~Fn.noReturn
    /\ pos[1] = 2
    /\ Len(src) = 1 /\ src[1].noReturn
    /\ Context.Diags[1].diag = "return_from_noreturn"
    /\ Emitted = <<>>

\* The diagnostics of the functions run alone, one function after the other.
RECURSIVE OwnUpTo(_)
OwnUpTo(f) == IF f = 0 THEN <<>> ELSE OwnUpTo(f - 1) \o own[f].Diags

\* (C9) The diagnostics of a function do not depend on the other functions:
\* when the workers ran one after the other in function order (the
\* sequential traversal), the sink holds each function's own diagnostics,
\* function after function; and under any interleaving of the workers, the
\* resequenced sink is that same sequence.
C9_FunctionsIndependent ==
    /\ (AllEnded /\ inOrder) => shared.Diags = OwnUpTo(MaxFuncs)
    /\ surfaced.ready => surfaced.Diags = OwnUpTo(MaxFuncs)

C9_Witness ==
    /\ surfaced.ready
    /\ ~inOrder
    /\ Len(surfaced.Diags) = 2
    /\ surfaced.Diags # shared.Diags
    /\ surfaced.Diags[1].loc.id[1] = 1 /\ surfaced.Diags[2].loc.id[1] = 2

\* (C10) A visit emits at most one diagnostic: an Unreachable a
\* missing_return or a non_exhaustive_switch, a Branch or Return a
\* return_from_noreturn, anything else nothing; and the sink never holds
\* more diagnostics than terminators were visited.
C10_AtMostOnePerInstruction ==
    /\ Visited =>
         /\ Len(Emitted) <= 1
         /\ I.kind = "Unreachable"
              => KindsIn(Emitted) \subseteq {"missing_return", "non_exhaustive_switch"}
         /\ I.kind \in {"Branch", "Return"}
              => KindsIn(Emitted) \subseteq {"return_from_noreturn"}
         /\ I.kind \notin {"Unreachable", "Branch", "Return"} => Emitted = <<>>
    /\ Len(Context.Diags) <= nTerm

C10_Witness ==
    /\ pc = "done"
    /\ nTerm = 3
    /\ Len(Context.Diags) = 3
    /\ KindsIn(Context.Diags) =
          {"missing_return", "non_exhaustive_switch", "return_from_noreturn"}

====
